---- MODULE Spec2Model ----
(***************************************************************************)
(* Transcoding-and-seek engine of the dms media server.                    *)
(*                                                                         *)
(*   transcode/transcode.go : transcodePipe, Transcode, Exec,              *)
(*                            parseCommandLine                             *)
(*   dlna/dlna.go           : ParseNPTTime, FormatNPTTime,                 *)
(*                            calculateNPTPosition,                        *)
(*                            ParseHTTPRangeToNPTRange                     *)
(*                                                                         *)
(* Strings are sequences of one-character strings, so that scanning,       *)
(* splitting and formatting are computed character by character.           *)
(*                                                                         *)
(* Five specifications share the module, one per component:                *)
(*   SpecTok   the command line tokenizer, one loop iteration per step     *)
(*   Spec      the process orchestrator (Exec / Transcode / transcodePipe, *)
(*             the context watcher, the reaper goroutine, the consumer)    *)
(*   SpecRange successive HTTP range requests against one resource         *)
(*   SpecNPT   ParseNPTTime followed by FormatNPTTime                      *)
(*   SpecPlan  generateStreamArgs, one loop iteration per step, in the     *)
(*             two revisions of the package                                *)
(* Each leaves the variables of the other components at rest.              *)
(***************************************************************************)
EXTENDS Integers, Sequences, FiniteSets, TLC

VARIABLES
    \* ---- tokenizer (parseCommandLine) ----
    command,      \* the input string
    i,            \* loop index (0-based, as in the code)
    state,        \* "start" | "arg" | "quotes"
    current,      \* field being built
    quote,        \* the quote character that closes the quoted field
    escapeNext,   \* the next character is taken literally
    args,         \* fields emitted so far
    tokDone,      \* parseCommandLine has returned
    tokResult,    \* the returned [argv, err]
    \* ---- process orchestrator (Exec, Transcode, transcodePipe) ----
    call,         \* entry point that was called, "none" before the call
    argv,         \* argument vector handed to transcodePipe
    env,          \* what the call met: parse, probe, pipe and start outcomes
    retErr,       \* "pending", or the error the call returned ("nil": none)
    ctx,          \* the cancellation token: "live" | "done"
    cancelAt,     \* what the process was doing when ctx was cancelled
    proc,         \* the encoder: "none" | "running" | "exited" | "reaped"
    exitStatus,   \* how the encoder exited
    intrDelivered,\* an interrupt reached the encoder while it ran
    interrupts,   \* os.Interrupt signals sent
    kills,        \* forced kills sent
    watcher,      \* os/exec's context watcher goroutine
    watchErr,     \* the error the watcher hands to Wait
    hookAt,       \* what the process was doing when cmd.Cancel ran
    reaper,       \* the goroutine of transcodePipe around cmd.Wait
    report,       \* what the reaper wrote to the log
    pipeRd,       \* read end of the stdout pipe: "none" | "open" | "closed"
    buffered,     \* chunks written by the encoder and not yet read
    lastRead,     \* outcome of the consumer's latest Read
    \* ---- range converter (ParseHTTPRangeToNPTRange) ----
    totalSize,    \* size of the resource in bytes
    duration,     \* its duration in nanoseconds
    rangeHeader,  \* the latest request's Range header, empty before the first
    nptRange,     \* what the latest request returned: [err, rng]
    prevRange,    \* what the request before it returned
    \* ---- NPT time text (ParseNPTTime, FormatNPTTime) ----
    nptText,      \* the text handed to ParseNPTTime
    nptPhase,     \* "input" | "parsed" | "formatted"
    nptParsed,    \* what ParseNPTTime returned: [err, val]
    nptFormatted, \* what FormatNPTTime made of the parsed duration
    \* ---- stream codec planner (generateStreamArgs) ----
    revision,     \* "current" (transcode/transcode.go) | "earlier"
    streams,      \* the stream descriptors of the probe result
    planPos,      \* streams the range loop has gone through
    planArgs,     \* args
    emitted,      \* per stream gone through, what was appended for it
    outputVideoIndex,
    outputAudioIndex,
    outputSubtitleIndex,
    planDone      \* generateStreamArgs has returned

tokVars ==
    <<command, i, state, current, quote, escapeNext, args, tokDone, tokResult>>

procVars ==
    <<call, argv, env, retErr, ctx, cancelAt, proc, exitStatus, intrDelivered,
      interrupts, kills, watcher, watchErr, hookAt, reaper, report, pipeRd,
      buffered, lastRead>>

rangeVars == <<totalSize, duration, rangeHeader, nptRange, prevRange>>

nptVars == <<nptText, nptPhase, nptParsed, nptFormatted>>

planVars == <<revision, streams, planPos, planArgs, emitted, outputVideoIndex,
              outputAudioIndex, outputSubtitleIndex, planDone>>

vars == <<tokVars, procVars, rangeVars, nptVars, planVars>>

\* ------------------------------------------------------------------ bounds

\* Longest command line the tokenizer specification scans.
MaxLen == 5

\* ------------------------------------------------------------ characters

DQ == "\""
SQ == "'"
BS == "\\"
SP == " "
TAB == "\t"

Whitespace == {SP, TAB}
Quotes == {DQ, SQ}
Ordinary == {"a", "b"}
Alphabet == Ordinary \cup Whitespace \cup Quotes \cup {BS}

\* All strings over S of length at most n.
StringsUpTo(S, n) == UNION {[1..k -> S] : k \in 0..n}

\* --------------------------------------------------------------- tokenizer

\* The loop's variables before the first iteration.
TokStart ==
    [state |-> "start", current |-> <<>>, quote |-> DQ,
     escapeNext |-> TRUE, args |-> <<>>]

\* One iteration of the loop on character c.
ParseStep(st, c) ==
    IF st.state = "quotes" THEN
        IF c # st.quote
        THEN [st EXCEPT !.current = Append(@, c)]
        ELSE [st EXCEPT !.args = Append(@, st.current),
                        !.current = <<>>,
                        !.state = "start"]
    ELSE IF st.escapeNext THEN
        [st EXCEPT !.current = Append(@, c), !.escapeNext = FALSE]
    ELSE IF c = BS THEN
        [st EXCEPT !.escapeNext = TRUE]
    ELSE IF c = DQ \/ c = SQ THEN
        [st EXCEPT !.state = "quotes", !.quote = c]
    ELSE IF st.state = "arg" THEN
        IF c = SP \/ c = TAB
        THEN [st EXCEPT !.args = Append(@, st.current),
                        !.current = <<>>,
                        !.state = "start"]
        ELSE [st EXCEPT !.current = Append(@, c)]
    ELSE IF c # SP /\ c # TAB THEN
        [st EXCEPT !.state = "arg", !.current = Append(@, c)]
    ELSE st

\* What follows the loop: the unclosed-quote error, the trailing field.
ParseFinish(st) ==
    IF st.state = "quotes"
    THEN [argv |-> <<>>, err |-> TRUE]
    ELSE IF st.current # <<>>
    THEN [argv |-> Append(st.args, st.current), err |-> FALSE]
    ELSE [argv |-> st.args, err |-> FALSE]

RECURSIVE ParseLoop(_, _, _)
ParseLoop(st, cmd, k) ==
    IF k > Len(cmd) THEN st ELSE ParseLoop(ParseStep(st, cmd[k]), cmd, k + 1)

\* parseCommandLine as a function of its input.
parseCommandLine(cmd) == ParseFinish(ParseLoop(TokStart, cmd, 1))

TokState ==
    [state |-> state, current |-> current, quote |-> quote,
     escapeNext |-> escapeNext, args |-> args]

TokInit ==
    /\ command \in StringsUpTo(Alphabet, MaxLen)
    /\ i = 0
    /\ state = TokStart.state
    /\ current = TokStart.current
    /\ quote = TokStart.quote
    /\ escapeNext = TokStart.escapeNext
    /\ args = TokStart.args
    /\ tokDone = FALSE
    /\ tokResult = [argv |-> <<>>, err |-> FALSE]

\* for i := 0; i < len(command); i++ { ... }
ScanChar ==
    /\ ~tokDone
    /\ i < Len(command)
    /\ LET st == ParseStep(TokState, command[i + 1]) IN
        /\ state' = st.state
        /\ current' = st.current
        /\ quote' = st.quote
        /\ escapeNext' = st.escapeNext
        /\ args' = st.args
    /\ i' = i + 1
    /\ UNCHANGED <<command, tokDone, tokResult>>

\* The loop has ended: return.
ScanEnd ==
    /\ ~tokDone
    /\ i = Len(command)
    /\ tokDone' = TRUE
    /\ tokResult' = ParseFinish(TokState)
    /\ UNCHANGED <<command, i, state, current, quote, escapeNext, args>>

\* ---------------------------------------------------- process orchestrator

\* Longest command string Exec is called with.
MaxCmdLen == 2
\* Capacity of the stdout pipe, in chunks.
MaxBuf == 1

\* The argument vectors the fixed-template entry points build: only the
\* executable name and the fact that the vector is not empty reach
\* transcodePipe's control flow.
FfmpegArgv == << <<"f", "f", "m", "p", "e", "g">> >>
AvconvArgv == << <<"a", "v", "c", "o", "n", "v">> >>

\* The exit status the reaper takes for an interrupted encoder.
ExpectedExitCode == 255

ExitStatuses == {"exit0", "exit1", "exit255", "signaled"}

\* exec.ExitError.ExitCode(): -1 when the process was ended by a signal.
ExitCode(status) ==
    IF status = "exit0" THEN 0
    ELSE IF status = "exit1" THEN 1
    ELSE IF status = "exit255" THEN 255
    ELSE -1

\* Mutant of CancelSignal: cmd.Cancel left at exec.CommandContext's default,
\* which kills the process.
CancelSignalKill == "kill"

\* cmd.Cancel: what the context watcher does to the process.
CancelSignal == "interrupt"

\* The error cmd.Wait returns: an ExitError for a non-zero exit or a death
\* by signal; otherwise what the context watcher reports, the context's
\* error when the cancel hook had returned nil.
WaitError(status, watch) ==
    IF status # "exit0" THEN "ExitError" ELSE watch

\* The reaper's if: nothing for a nil error, a silent return for exit code
\* 255, the "command ... failed" log line for anything else.
Classify(err, status) ==
    IF err = "nil" THEN "none"
    ELSE IF err = "ExitError" /\ ExitCode(status) = ExpectedExitCode THEN "expected"
    ELSE "failed"

\* Nothing has failed.
EnvOK == [parseErr |-> FALSE, probeOk |-> TRUE, pipeOk |-> TRUE, startOk |-> TRUE]

ProcIdle ==
    /\ call = "none"
    /\ argv = <<>>
    /\ env = EnvOK
    /\ retErr = "pending"
    /\ ctx = "live"
    /\ cancelAt = "never"
    /\ proc = "none"
    /\ exitStatus = "none"
    /\ intrDelivered = FALSE
    /\ interrupts = 0
    /\ kills = 0
    /\ watcher = "none"
    /\ watchErr = "nil"
    /\ hookAt = "never"
    /\ reaper = "none"
    /\ report = "none"
    /\ pipeRd = "none"
    /\ buffered = 0
    /\ lastRead = "none"

\* Mutant of transcodePipe: the reaper goroutine is started before the
\* error of cmd.Start is looked at.
transcodePipeEarlyGo(a, pipeOk, startOk) ==
    /\ argv' = a
    /\ IF Len(a) = 0 THEN
            /\ retErr' = "panic"
            /\ UNCHANGED <<proc, watcher, reaper, pipeRd>>
       ELSE IF ~pipeOk THEN
            /\ retErr' = "PipeError"
            /\ UNCHANGED <<proc, watcher, reaper, pipeRd>>
       ELSE IF ~startOk \/ ctx = "done" THEN
            /\ retErr' = "LaunchError"
            /\ reaper' = "waiting"
            /\ UNCHANGED <<proc, watcher, pipeRd>>
       ELSE /\ retErr' = "nil"
            /\ proc' = "running"
            /\ watcher' = "watching"
            /\ reaper' = "waiting"
            /\ pipeRd' = "open"
    /\ UNCHANGED <<ctx, cancelAt, exitStatus, intrDelivered, interrupts, kills,
                   watchErr, hookAt, report, buffered, lastRead>>

\* transcodePipe(ctx, a, stderr): pipeOk and startOk are whether
\* cmd.StdoutPipe and cmd.Start succeed.  cmd.Start refuses a context that
\* is already done.  On success the watcher and the reaper are running when
\* the function returns.
transcodePipe(a, pipeOk, startOk) ==
    /\ argv' = a
    /\ IF Len(a) = 0 THEN
            \* args[0]: index out of range
            /\ retErr' = "panic"
            /\ UNCHANGED <<proc, watcher, reaper, pipeRd>>
       ELSE IF ~pipeOk THEN
            /\ retErr' = "PipeError"
            /\ UNCHANGED <<proc, watcher, reaper, pipeRd>>
       ELSE IF ~startOk \/ ctx = "done" THEN
            /\ retErr' = "LaunchError"
            /\ UNCHANGED <<proc, watcher, reaper, pipeRd>>
       ELSE /\ retErr' = "nil"
            /\ proc' = "running"
            /\ watcher' = "watching"
            /\ reaper' = "waiting"
            /\ pipeRd' = "open"
    /\ UNCHANGED <<ctx, cancelAt, exitStatus, intrDelivered, interrupts, kills,
                   watchErr, hookAt, report, buffered, lastRead>>

\* Exec(ctx, cmds, ...)
Exec ==
    /\ call = "none"
    /\ \E cmds \in StringsUpTo(Alphabet, MaxCmdLen), pipeOk, startOk \in BOOLEAN :
        LET r == parseCommandLine(cmds) IN
        /\ call' = "Exec"
        /\ env' = [EnvOK EXCEPT !.parseErr = r.err, !.pipeOk = pipeOk,
                                !.startOk = startOk]
        /\ IF r.err
           THEN /\ retErr' = "SyntaxError"
                /\ UNCHANGED <<argv, ctx, cancelAt, proc, exitStatus,
                               intrDelivered, interrupts, kills, watcher,
                               watchErr, hookAt, reaper, report, pipeRd,
                               buffered, lastRead>>
           ELSE transcodePipe(r.argv, pipeOk, startOk)
    /\ UNCHANGED <<tokVars, rangeVars, nptVars, planVars>>

\* Transcode(ctx, path, ...): probeOk is whether ffprobe.Run succeeds.
Transcode ==
    /\ call = "none"
    /\ \E probeOk, pipeOk, startOk \in BOOLEAN :
        /\ call' = "Transcode"
        /\ env' = [EnvOK EXCEPT !.probeOk = probeOk, !.pipeOk = pipeOk,
                                !.startOk = startOk]
        /\ IF ~probeOk
           THEN /\ retErr' = "ProbeError"
                /\ UNCHANGED <<argv, ctx, cancelAt, proc, exitStatus,
                               intrDelivered, interrupts, kills, watcher,
                               watchErr, hookAt, reaper, report, pipeRd,
                               buffered, lastRead>>
           ELSE transcodePipe(FfmpegArgv, pipeOk, startOk)
    /\ UNCHANGED <<tokVars, rangeVars, nptVars, planVars>>

\* VP8Transcode(ctx, path, ...)
VP8Transcode ==
    /\ call = "none"
    /\ call' = "VP8Transcode"
    /\ \E pipeOk, startOk \in BOOLEAN :
        /\ env' = [EnvOK EXCEPT !.pipeOk = pipeOk, !.startOk = startOk]
        /\ transcodePipe(AvconvArgv, pipeOk, startOk)
    /\ UNCHANGED <<tokVars, rangeVars, nptVars, planVars>>

\* ChromecastTranscode(ctx, path, ...)
ChromecastTranscode ==
    /\ call = "none"
    /\ call' = "ChromecastTranscode"
    /\ \E pipeOk, startOk \in BOOLEAN :
        /\ env' = [EnvOK EXCEPT !.pipeOk = pipeOk, !.startOk = startOk]
        /\ transcodePipe(FfmpegArgv, pipeOk, startOk)
    /\ UNCHANGED <<tokVars, rangeVars, nptVars, planVars>>

\* WebTranscode(ctx, path, ...)
WebTranscode ==
    /\ call = "none"
    /\ call' = "WebTranscode"
    /\ \E pipeOk, startOk \in BOOLEAN :
        /\ env' = [EnvOK EXCEPT !.pipeOk = pipeOk, !.startOk = startOk]
        /\ transcodePipe(FfmpegArgv, pipeOk, startOk)
    /\ UNCHANGED <<tokVars, rangeVars, nptVars, planVars>>

\* The caller cancels ctx (the client went away), before or after the call.
ContextCancel ==
    /\ ctx = "live"
    /\ ctx' = "done"
    /\ cancelAt' = proc
    /\ UNCHANGED <<call, argv, env, retErr, proc, exitStatus, intrDelivered,
                   interrupts, kills, watcher, watchErr, hookAt, reaper, report,
                   pipeRd, buffered, lastRead>>
    /\ UNCHANGED <<tokVars, rangeVars, nptVars, planVars>>

\* The context watcher wakes on ctx.Done() and runs cmd.Cancel, that is
\* cmd.Process.Signal(os.Interrupt).  The signal is sent unless the process
\* has already been waited on (os.ErrProcessDone); WaitDelay is zero, so no
\* kill follows.  The watcher then holds its result for Wait.
WatchCancel ==
    /\ watcher = "watching"
    /\ ctx = "done"
    /\ watcher' = "sending"
    /\ hookAt' = proc
    /\ IF proc \in {"running", "exited"}
       THEN /\ interrupts' = IF CancelSignal = "interrupt" THEN interrupts + 1 ELSE interrupts
            /\ kills' = IF CancelSignal = "interrupt" THEN kills ELSE kills + 1
            /\ intrDelivered' = (proc = "running")
            /\ watchErr' = "context canceled"
       ELSE UNCHANGED <<interrupts, kills, intrDelivered, watchErr>>
    /\ UNCHANGED <<call, argv, env, retErr, ctx, cancelAt, proc, exitStatus, reaper,
                   report, pipeRd, buffered, lastRead>>
    /\ UNCHANGED <<tokVars, rangeVars, nptVars, planVars>>

\* The encoder writes a chunk to its stdout.
ProcWrite ==
    /\ proc = "running"
    /\ buffered < MaxBuf
    /\ buffered' = buffered + 1
    /\ UNCHANGED <<call, argv, env, retErr, ctx, cancelAt, proc, exitStatus,
                   intrDelivered, interrupts, kills, watcher, watchErr, hookAt,
                   reaper, report, pipeRd, lastRead>>
    /\ UNCHANGED <<tokVars, rangeVars, nptVars, planVars>>

\* The encoder ends: by itself with some exit status, or, once an
\* interrupt has reached it, also by the signal's default action.
ProcExit ==
    /\ proc = "running"
    /\ \E s \in ExitStatuses :
        /\ (s = "signaled") => intrDelivered
        /\ exitStatus' = s
    /\ proc' = "exited"
    /\ UNCHANGED <<call, argv, env, retErr, ctx, cancelAt, intrDelivered, interrupts,
                   kills, watcher, watchErr, hookAt, reaper, report, pipeRd,
                   buffered, lastRead>>
    /\ UNCHANGED <<tokVars, rangeVars, nptVars, planVars>>

\* The reaper, in cmd.Wait: Process.Wait returns once the encoder has ended.
ReapWait ==
    /\ reaper = "waiting"
    /\ proc = "exited"
    /\ proc' = "reaped"
    /\ reaper' = "joining"
    /\ UNCHANGED <<call, argv, env, retErr, ctx, cancelAt, exitStatus, intrDelivered,
                   interrupts, kills, watcher, watchErr, hookAt, report, pipeRd,
                   buffered, lastRead>>
    /\ UNCHANGED <<tokVars, rangeVars, nptVars, planVars>>

\* The reaper, rest of cmd.Wait and of the goroutine: Wait takes the
\* watcher's result (an empty one from a watcher that has not run the
\* cancel hook), closes the parent's end of the stdout pipe and returns its
\* error, which the goroutine classifies and, at most, logs.
ReapJoin ==
    /\ reaper = "joining"
    /\ watcher \in {"watching", "sending"}
    /\ LET watch == IF watcher = "sending" THEN watchErr ELSE "nil"
           err == WaitError(exitStatus, watch)
       IN report' = Classify(err, exitStatus)
    /\ watcher' = "done"
    /\ reaper' = "done"
    /\ pipeRd' = "closed"
    /\ UNCHANGED <<call, argv, env, retErr, ctx, cancelAt, proc, exitStatus,
                   intrDelivered, interrupts, kills, watchErr, hookAt, buffered,
                   lastRead>>
    /\ UNCHANGED <<tokVars, rangeVars, nptVars, planVars>>

\* The consumer reads the returned stream: a read of a pipe that Wait has
\* closed fails with os.ErrClosed; otherwise it yields buffered data, or
\* io.EOF once the encoder has ended and the pipe is drained; otherwise it
\* blocks.  The consumer stops at the first io.EOF or error.
Read ==
    /\ retErr = "nil"
    /\ lastRead \in {"none", "data"}
    /\ IF pipeRd = "closed" THEN
            /\ lastRead' = "ErrClosed"
            /\ UNCHANGED buffered
       ELSE IF buffered > 0 THEN
            /\ lastRead' = "data"
            /\ buffered' = buffered - 1
       ELSE /\ proc \in {"exited", "reaped"}
            /\ lastRead' = "EOF"
            /\ UNCHANGED buffered
    /\ UNCHANGED <<call, argv, env, retErr, ctx, cancelAt, proc, exitStatus,
                   intrDelivered, interrupts, kills, watcher, watchErr, hookAt,
                   reaper, report, pipeRd>>
    /\ UNCHANGED <<tokVars, rangeVars, nptVars, planVars>>

\* ------------------------------------------------------- range converter

\* Largest resource size, besides BigSize, and largest short duration (ns).
MaxSize == 2
MaxDuration == 2
\* The long durations are 2^53 ns and up to MaxBeyond ns more.
MaxBeyond == 3
\* A resource size of two decimal digits.
BigSize == 11

DigitChars == <<"0", "1", "2", "3", "4", "5", "6", "7", "8", "9">>
IsDigit(c) == \E d \in 1..10 : DigitChars[d] = c
DigitVal(c) == (CHOOSE d \in 1..10 : DigitChars[d] = c) - 1

\* strconv.FormatInt(n, 10)
RECURSIVE FormatNat(_)
FormatNat(n) ==
    IF n < 10 THEN <<DigitChars[n + 1]>>
    ELSE Append(FormatNat(n \div 10), DigitChars[(n % 10) + 1])

FormatInt(n) == IF n < 0 THEN <<"-">> \o FormatNat(-n) ELSE FormatNat(n)

\* strconv.ParseInt(s, 10, 64): an optional sign, then one or more decimal
\* digits and nothing else.
RECURSIVE DigitsVal(_, _)
DigitsVal(s, acc) ==
    IF s = <<>> THEN acc ELSE DigitsVal(Tail(s), 10 * acc + DigitVal(Head(s)))

ParseInt(s) ==
    LET signed == s # <<>> /\ Head(s) \in {"+", "-"}
        digits == IF signed THEN Tail(s) ELSE s
    IN IF digits = <<>> \/ \E k \in 1..Len(digits) : ~IsDigit(digits[k])
       THEN [ok |-> FALSE, val |-> 0]
       ELSE [ok |-> TRUE,
             val |-> IF signed /\ Head(s) = "-"
                     THEN -DigitsVal(digits, 0)
                     ELSE DigitsVal(digits, 0)]

\* const prefix = "bytes="
Prefix == <<"b", "y", "t", "e", "s", "=">>

\* strings.HasPrefix
HasPrefix(s, p) == Len(s) >= Len(p) /\ SubSeq(s, 1, Len(p)) = p

\* strings.TrimPrefix
TrimPrefix(s, p) == IF HasPrefix(s, p) THEN SubSeq(s, Len(p) + 1, Len(s)) ELSE s

\* strings.SplitN(s, "-", 2): s itself when it holds no "-", else what
\* stands before the first "-" and all that follows it.
SplitDash(s) ==
    IF \E k \in 1..Len(s) : s[k] = "-"
    THEN LET k == CHOOSE k \in 1..Len(s) :
                    s[k] = "-" /\ \A j \in 1..(k - 1) : s[j] # "-"
         IN <<SubSeq(s, 1, k - 1), SubSeq(s, k + 1, Len(s))>>
    ELSE <<s>>

\* time.Duration is an int64 count of nanoseconds, and the durations at
\* which float64 stops holding every integer are beyond the checker's
\* integers.  A duration is therefore kept in two limbs, hi * Limb + lo
\* with 0 <= lo < Limb; a negative one has a negative hi.  The durations of
\* the model stay below 2^58, where int64 does not overflow.
LimbBits == 27
Limb == 2^LimbBits

Wide(n) == [hi |-> n \div Limb, lo |-> n % Limb]

WZero == Wide(0)

WLeq(a, b) == a.hi < b.hi \/ (a.hi = b.hi /\ a.lo <= b.lo)

WLt(a, b) == WLeq(a, b) /\ a # b

WNeg(a) ==
    IF a.lo = 0 THEN [hi |-> -a.hi, lo |-> 0]
    ELSE [hi |-> -a.hi - 1, lo |-> Limb - a.lo]

WAdd(a, b) ==
    [hi |-> a.hi + b.hi + ((a.lo + b.lo) \div Limb), lo |-> (a.lo + b.lo) % Limb]

\* a * k for a >= 0 and an integer k >= 0
WMul(a, k) ==
    [hi |-> a.hi * k + ((a.lo * k) \div Limb), lo |-> (a.lo * k) % Limb]

\* Quotient and remainder of a >= 0 by an integer s > 0
WDivMod(a, s) ==
    LET t == (a.hi % s) * Limb + a.lo
    IN [q |-> [hi |-> a.hi \div s, lo |-> t \div s], rem |-> t % s]

RECURSIVE BitLen(_)
BitLen(n) == IF n = 0 THEN 0 ELSE 1 + BitLen(n \div 2)

WBitLen(a) == IF a.hi > 0 THEN LimbBits + BitLen(a.hi) ELSE BitLen(a.lo)

\* The significand of a float64 has 53 bits.
MantissaBits == 53

\* Fraction bits kept for a float64 that has more of them.  With the
\* divisor below 2^MaxFracBits the bits left out never decide on which
\* side of a half-integer the float64 lies.
MaxFracBits == 20

Min(a, b) == IF a <= b THEN a ELSE b

\* math.Round(f) where f is what big.Rat.Float64 makes of q + rem/s, for
\* q >= 0 and 0 <= rem < s.  Float64 takes the quotient to the nearest
\* float64, ties to the even significand: from 2^52 on the float64 values
\* are integers U apart, below it they are multiples of 1/F.  math.Round
\* then rounds to the nearest integer, halves away from zero.
MathRound(q, rem, s) ==
    LET bits == WBitLen(q) IN
    IF bits >= MantissaBits
    THEN LET U == 2^(bits - MantissaBits)
             low == q.lo % U
             base == [hi |-> q.hi, lo |-> q.lo - low]
             twice == 2 * (low * s + rem)
             up == twice > U * s
                     \/ (twice = U * s /\ (base.lo \div U) % 2 = 1)
         IN IF up THEN WAdd(base, Wide(U)) ELSE base
    ELSE LET F == 2^Min(MantissaBits - bits, MaxFracBits)
             kq == (rem * F) \div s
             kr == (rem * F) % s
             k == IF 2 * kr > s \/ (2 * kr = s /\ kq % 2 = 1)
                  THEN kq + 1 ELSE kq
         IN IF 2 * k >= F THEN WAdd(q, Wide(1)) ELSE q

\* Mutant of calculateNPTPosition: the fraction is built upside down,
\* SetFrac64(totalSize, bytePos).
calculateNPTPositionSwapped(bytePos, size, dur) ==
    IF size <= 0 \/ bytePos <= 0 THEN WZero
    ELSE LET neg == dur.hi < 0
             d == WDivMod(WMul(IF neg THEN WNeg(dur) ELSE dur, size), bytePos)
             r == MathRound(d.q, d.rem, bytePos)
         IN IF neg THEN WNeg(r) ELSE r

\* calculateNPTPosition(bytePos, totalSize, duration), for bytePos >= 0:
\* the exact fraction bytePos/totalSize times the duration, through
\* Float64 and math.Round.
calculateNPTPosition(bytePos, size, dur) ==
    IF size <= 0 THEN WZero
    ELSE LET neg == dur.hi < 0
             d == WDivMod(WMul(IF neg THEN WNeg(dur) ELSE dur, bytePos), size)
             r == MathRound(d.q, d.rem, size)
         IN IF neg THEN WNeg(r) ELSE r

\* NPTRange{}
ZeroRange == [Start |-> WZero, End |-> WZero, StartByte |-> 0, EndByte |-> 0]

RangeError == [err |-> TRUE, rng |-> ZeroRange]

\* What the fast path returns: NPTRange{End: duration, EndByte: totalSize-1}
WholeResource(size, dur) ==
    [err |-> FALSE,
     rng |-> [Start |-> WZero, End |-> dur, StartByte |-> 0, EndByte |-> size - 1]]

\* ParseHTTPRangeToNPTRange(rangeHeader, totalSize, duration)
ParseHTTPRangeToNPTRange(hdr, size, dur) ==
    IF hdr = Prefix \o <<"0", "-">>
       \/ hdr = Prefix \o <<"0", "-">> \o FormatInt(size - 1)
    THEN WholeResource(size, dur)
    ELSE IF ~HasPrefix(hdr, Prefix) THEN RangeError
    ELSE LET parts == SplitDash(TrimPrefix(hdr, Prefix)) IN
        IF Len(parts) # 2 THEN RangeError
        ELSE LET start == ParseInt(parts[1])
                 end == IF parts[2] # <<>>
                        THEN ParseInt(parts[2])
                        ELSE [ok |-> TRUE, val |-> size - 1]
             IN
            IF ~start.ok THEN RangeError
            ELSE IF ~end.ok THEN RangeError
            ELSE IF start.val < 0 \/ end.val >= size \/ start.val > end.val
            THEN RangeError
            ELSE LET startTime == calculateNPTPosition(start.val, size, dur)
                     endTime == calculateNPTPosition(end.val + 1, size, dur)
                 IN [err |-> FALSE,
                     rng |-> [Start |-> startTime,
                              End |-> IF WLt(dur, endTime) THEN dur ELSE endTime,
                              StartByte |-> start.val,
                              EndByte |-> end.val]]

\* Resource sizes and durations of the model; sizes include the empty
\* resource and a negative size, durations a negative one.
Sizes == ((-1)..MaxSize) \cup {BigSize}
ExactLimit == [hi |-> 2^(MantissaBits - LimbBits), lo |-> 0]
Durations ==
    {Wide(n) : n \in (-1)..MaxDuration}
        \cup {WAdd(ExactLimit, Wide(k)) : k \in 0..MaxBeyond}

\* Texts that stand for the first and the last byte of a request, well
\* formed or not.
StartTexts ==
    {FormatInt(n) : n \in 0..MaxSize}
        \cup {<<>>, <<"x">>, <<"+", "1">>, <<"0", "0">>}
EndTexts ==
    {FormatInt(n) : n \in ((-1)..MaxSize) \cup {BigSize - 1}}
        \cup {<<>>, <<"x">>}

\* Range headers of the model: "bytes=<a>-<b>", "bytes=<a>" and two
\* headers of another unit.
Headers ==
    {Prefix \o a \o <<"-">> \o b : a \in StartTexts, b \in EndTexts}
        \cup {Prefix \o a : a \in StartTexts}
        \cup {<<"x", "=">> \o a \o <<"-">> : a \in {<<>>, <<"0">>}}

RangeIdle ==
    /\ totalSize = 0
    /\ duration = WZero
    /\ rangeHeader = <<>>
    /\ nptRange = RangeError
    /\ prevRange = RangeError

RangeInit ==
    /\ totalSize \in Sizes
    /\ duration \in Durations
    /\ rangeHeader = <<>>
    /\ nptRange = RangeError
    /\ prevRange = RangeError

\* A client's range request against the resource.
RangeRequest ==
    /\ \E hdr \in Headers :
        /\ rangeHeader' = hdr
        /\ nptRange' = ParseHTTPRangeToNPTRange(hdr, totalSize, duration)
    /\ prevRange' = nptRange
    /\ UNCHANGED <<totalSize, duration>>

\* ----------------------------------------------------------- NPT time text

\* Most digits in the hour field of the texts parsed.
MaxHourDigits == 2

\* time.Duration counts nanoseconds, and an hour of them is past what the
\* checker's integers hold.  Every duration ParseNPTTime returns is a whole
\* number of milliseconds and FormatNPTTime starts by dividing by
\* time.Millisecond, so this component counts durations in milliseconds.
Millisecond == 1
Second == 1000
Minute == 60000
Hour == 3600000

\* Go's integer division and remainder, which truncate toward zero.
GoDiv(a, b) == IF a >= 0 THEN a \div b ELSE -((-a) \div b)
GoMod(a, b) == a - b * GoDiv(a, b)

\* The verb %d of fmt.Sscanf at position pos, reading at most width
\* characters: leading spaces are skipped, a sign is accepted, then come
\* the digits.  ok is FALSE at the end of input or without a digit.
RECURSIVE SkipSpace(_, _)
SkipSpace(s, pos) ==
    IF pos <= Len(s) /\ s[pos] \in {SP, TAB} THEN SkipSpace(s, pos + 1) ELSE pos

RECURSIVE ScanDigits(_, _, _, _)
ScanDigits(s, pos, left, acc) ==
    IF left > 0 /\ pos <= Len(s) /\ IsDigit(s[pos])
    THEN ScanDigits(s, pos + 1, left - 1, Append(acc, s[pos]))
    ELSE [pos |-> pos, digits |-> acc]

ScanInt(s, pos0, width) ==
    LET pos == SkipSpace(s, pos0)
        signed == width > 0 /\ pos <= Len(s) /\ s[pos] \in {"+", "-"}
        from == IF signed THEN pos + 1 ELSE pos
        d == ScanDigits(s, from, IF signed THEN width - 1 ELSE width, <<>>)
    IN IF d.digits = <<>>
       THEN [ok |-> FALSE, val |-> 0, pos |-> d.pos]
       ELSE [ok |-> TRUE,
             val |-> IF signed /\ s[pos] = "-"
                     THEN -DigitsVal(d.digits, 0)
                     ELSE DigitsVal(d.digits, 0),
             pos |-> d.pos]

\* A literal character of the format must be the next character of the input.
ScanLiteral(s, pos, c) == pos <= Len(s) /\ s[pos] = c

\* No width: %d reads every digit there is.
Unbounded(s) == Len(s) + 1

NPTError == [err |-> TRUE, val |-> -1]

\* ParseNPTTime(s): fmt.Sscanf(s, "%d:%2d:%2d.%3d", &h, &m, &sec, &ms)
\* reports an error unless every verb and literal is matched, and then the
\* function returns -1 and that error.
ParseNPTTime(s) ==
    LET h == ScanInt(s, 1, Unbounded(s)) IN
    IF ~h.ok \/ ~ScanLiteral(s, h.pos, ":") THEN NPTError
    ELSE LET m == ScanInt(s, h.pos + 1, 2) IN
    IF ~m.ok \/ ~ScanLiteral(s, m.pos, ":") THEN NPTError
    ELSE LET sec == ScanInt(s, m.pos + 1, 2) IN
    IF ~sec.ok \/ ~ScanLiteral(s, sec.pos, ".") THEN NPTError
    ELSE LET ms == ScanInt(s, sec.pos + 1, 3) IN
    IF ~ms.ok THEN NPTError
    ELSE [err |-> FALSE,
          val |-> h.val * Hour + m.val * Minute + sec.val * Second
                    + ms.val * Millisecond]

\* %0<w>d of fmt.Sprintf: the decimal text, zero-padded to w characters,
\* the sign first.
RECURSIVE ZeroPad(_, _)
ZeroPad(t, w) == IF Len(t) >= w THEN t ELSE ZeroPad(<<"0">> \o t, w)

PadInt(n, w) ==
    IF n < 0 THEN <<"-">> \o ZeroPad(FormatNat(-n), w - 1)
    ELSE ZeroPad(FormatNat(n), w)

\* Mutant of FormatNPTTime: the milliseconds are printed with %02d.
FormatNPTTimeShortMs(npt) ==
    LET t0 == GoDiv(npt, Millisecond)
        ms == GoMod(t0, 1000)
        t1 == GoDiv(t0, 1000)
        s == GoMod(t1, 60)
        t2 == GoDiv(t1, 60)
        m == GoMod(t2, 60)
        h == GoDiv(t2, 60)
    IN PadInt(h, 2) \o <<":">> \o PadInt(m, 2) \o <<":">> \o PadInt(s, 2)
            \o <<".">> \o PadInt(ms, 2)

\* FormatNPTTime(npt): fmt.Sprintf("%02d:%02d:%02d.%03d", h, m, s, ms)
FormatNPTTime(npt) ==
    LET t0 == GoDiv(npt, Millisecond)
        ms == GoMod(t0, 1000)
        t1 == GoDiv(t0, 1000)
        s == GoMod(t1, 60)
        t2 == GoDiv(t1, 60)
        m == GoMod(t2, 60)
        h == GoDiv(t2, 60)
    IN PadInt(h, 2) \o <<":">> \o PadInt(m, 2) \o <<":">> \o PadInt(s, 2)
            \o <<".">> \o PadInt(ms, 3)

\* The digits the model's texts are written with.
HourDigits == {"0", "1", "2"}
TensDigits == {"0", "5", "6"}
UnitDigits == {"0", "9"}

HourTexts == UNION {[1..k -> HourDigits] : k \in 1..MaxHourDigits}
TwoDigitTexts == {<<t, u>> : t \in TensDigits, u \in UnitDigits}
MilliTexts == [1..3 -> UnitDigits]

\* Texts of the shape H:MM:SS.mmm, and the same without the fraction.
NPTTexts ==
    {h \o <<":">> \o m \o <<":">> \o s \o <<".">> \o f :
        h \in HourTexts, m \in TwoDigitTexts, s \in TwoDigitTexts, f \in MilliTexts}
    \cup {h \o <<":">> \o m \o <<":">> \o s :
        h \in HourTexts, m \in TwoDigitTexts, s \in TwoDigitTexts}

NptIdle ==
    /\ nptText = <<>>
    /\ nptPhase = "idle"
    /\ nptParsed = NPTError
    /\ nptFormatted = <<>>

NptInit ==
    /\ nptText \in NPTTexts
    /\ nptPhase = "input"
    /\ nptParsed = NPTError
    /\ nptFormatted = <<>>

\* ParseNPTTime is applied to the text.
ParseNPT ==
    /\ nptPhase = "input"
    /\ nptParsed' = ParseNPTTime(nptText)
    /\ nptPhase' = "parsed"
    /\ UNCHANGED <<nptText, nptFormatted>>

\* FormatNPTTime is applied to the duration that was parsed.
FormatNPT ==
    /\ nptPhase = "parsed"
    /\ ~nptParsed.err
    /\ nptFormatted' = FormatNPTTime(nptParsed.val)
    /\ nptPhase' = "formatted"
    /\ UNCHANGED <<nptText, nptParsed>>

\* ---------------------------------------------------- stream codec planner

\* Most stream descriptors in one probe result.
MaxStreams == 3

\* An argument is a sequence of pieces: a plain word is <<word>>, an option
\* scoped to an output slot is <<name, type>> followed by the characters
\* strconv.Itoa makes of the slot counter, as in "-c:a:" + Itoa(n).
Tok(word) == <<word>>

Itoa(n) == FormatInt(n)

Opt(name, type, n) == <<name, type>> \o Itoa(n)

\* int(indexF): stream["index"] as a float64, else as a json.Number.  A
\* descriptor of the model always carries its index.
InputIndex(stream) == stream.index

\* getStreamAlias of transcode/transcode.go: "0:" + Itoa(inputIndex)
getStreamAlias(stream) == <<"0", ":">> \o Itoa(InputIndex(stream))

\* getStreamAlias of the earlier revision: "0:" + key + ":" + Itoa(inputIndex)
getStreamAliasKeyed(key, stream) ==
    <<"0", ":", key, ":">> \o Itoa(InputIndex(stream))

ImageCodecs == {"mjpeg", "png", "bmp", "webp", "tiff", "j2k", "jpeg2000"}

\* case "video" of transcode/transcode.go, with outputVideoIndex = n
VideoArgs(stream, n) ==
    IF stream.codec_name \in ImageCodecs
    THEN << Tok("-map"), getStreamAlias(stream),
            Opt("-c", "v", n), Tok("copy") >>
    ELSE << Tok("-map"), getStreamAlias(stream),
            Opt("-c", "v", n), Tok("mpeg2video"),
            Opt("-b", "v", n), Tok("6000k"),
            Opt("-minrate", "v", n), Tok("3000k"),
            Opt("-maxrate", "v", n), Tok("8000k"),
            Opt("-bufsize", "v", n), Tok("1835k"),
            Opt("-g", "v", n), Tok("15"),
            Opt("-bf", "v", n), Tok("2"),
            Opt("-flags", "v", n), Tok("+ilme+ildct"),
            Opt("-filter", "v", n), Tok("fieldorder=tff"),
            Opt("-aspect", "v", n), Tok("16:9"),
            Opt("-s", "v", n), Tok("720x576"),
            Opt("-r", "v", n), Tok("25"),
            Tok("-vsync"), Tok("cfr") >>

FirstTier == {"aac", "dca", "ac3", "mp2", "mp3", "opus", "flac", "pcm_s16le"}
SecondTier == {"eac3", "dts"}

\* case "audio" of transcode/transcode.go, with outputAudioIndex = n.  The
\* sample format option of TrueHD is "-sample_fmt:a:3" + Itoa(n).
AudioArgs(stream, n) ==
    LET alias == getStreamAlias(stream)
        defaultFilter == << Opt("-filter", "a", n), Tok("aresample=async=10000") >>
    IN IF stream.codec_name \in FirstTier
       THEN << Tok("-map"), alias,
               Opt("-c", "a", n), Tok("ac3"),
               Opt("-b", "a", n), Tok("224k"),
               Opt("-ac", "a", n), Tok("2") >> \o defaultFilter
       ELSE IF stream.codec_name \in SecondTier
       THEN << Tok("-map"), alias,
               Opt("-c", "a", n), Tok("ac3"),
               Opt("-b", "a", n), Tok("448k"),
               Opt("-ac", "a", n), Tok("2") >> \o defaultFilter
       ELSE IF stream.codec_name = "truehd"
       THEN << Tok("-map"), alias,
               Opt("-c", "a", n), Tok("ac3"),
               Opt("-b", "a", n), Tok("640k"),
               Opt("-ac", "a", n), Tok("6"),
               Opt("-ar", "a", n), Tok("48000"),
               <<"-sample_fmt", "a", "3">> \o Itoa(n), Tok("fltp"),
               Opt("-filter", "a", n),
               Tok("aresample=ocl=stereo:async=10000,channelmap=channel_layout=5.1") >>
       ELSE << Tok("-map"), alias, Opt("-c", "a", n), Tok("copy") >>

ConvertedSubtitles == {"srt", "dvdsub"}

\* case "subtitle" of transcode/transcode.go, with outputSubtitleIndex = n
SubtitleArgs(stream, n) ==
    IF stream.codec_name \in ConvertedSubtitles
    THEN << Tok("-map"), getStreamAlias(stream),
            Opt("-c", "s", n), Tok("dvbsub"), Tok("-fix_sub_duration"),
            Tok("-canvas_size"), Tok("720x576") >>
    ELSE << Tok("-map"), getStreamAlias(stream), Opt("-c", "s", n), Tok("copy") >>

\* default of the codec_type switch of transcode/transcode.go
OtherArgs(stream) ==
    << Tok("-map"), getStreamAlias(stream), Tok("-c"), Tok("copy") >>

\* The earlier revision of the loop body: what it appends for the stream;
\* nothing where it says continue or has no case.
FirstTierEarlier == {"aac", "dca", "ac3", "mp2"}

EarlierVideoArgs(stream, n) ==
    << Tok("-map"), getStreamAliasKeyed("v", stream),
       Opt("-c", "v", n), Tok("mpeg2video"),
       Opt("-b", "v", n), Tok("6000k"),
       Tok("-maxrate"), Tok("8000k"), Tok("-bufsize"), Tok("1835k"),
       Tok("-minrate"), Tok("3000k"),
       Tok("-g"), Tok("15"), Tok("-bf"), Tok("2"),
       Tok("-flags"), Tok("+ilme+ildct"), Tok("-vf"), Tok("fieldorder=tff"),
       Tok("-aspect"), Tok("16:9"), Tok("-s"), Tok("720x576"),
       Tok("-r"), Tok("25"), Tok("-vsync"), Tok("cfr") >>

EarlierAudioArgs(stream, n) ==
    LET alias == getStreamAliasKeyed("a", stream)
        filter == << Opt("-filter", "a", n),
                     Tok("aresample=async=1000000:first_pts=0") >>
        ac3(rate) == << Tok("-map"), alias,
                        Opt("-c", "a", n), Tok("ac3"),
                        Opt("-b", "a", n), Tok(rate),
                        Opt("-ac", "a", n), Tok("2") >> \o filter
    IN IF stream.codec_name \in FirstTierEarlier THEN ac3("224k")
       ELSE IF stream.codec_name = "eac3" THEN ac3("448k")
       ELSE IF stream.codec_name = "truehd"
       THEN IF stream.channels > 6
            THEN <<>> ELSE ac3("640k")
       ELSE <<>>

EarlierSubtitleArgs(stream, n) ==
    IF stream.codec_name \in ConvertedSubtitles
    THEN << Tok("-map"), getStreamAliasKeyed("s", stream),
            Opt("-c", "s", n), Tok("dvbsub"), Tok("-fix_sub_duration"),
            Tok("-canvas_size"), Tok("720x576") >>
    ELSE <<>>

\* One iteration of the range loop: the arguments appended for the stream,
\* given the three slot counters.
StreamArgs(rev, stream, v, a, s) ==
    IF rev = "current"
    THEN IF stream.codec_type = "video" THEN VideoArgs(stream, v)
         ELSE IF stream.codec_type = "audio" THEN AudioArgs(stream, a)
         ELSE IF stream.codec_type = "subtitle" THEN SubtitleArgs(stream, s)
         ELSE OtherArgs(stream)
    ELSE IF stream.codec_type = "video" THEN EarlierVideoArgs(stream, v)
         ELSE IF stream.codec_type = "audio" THEN EarlierAudioArgs(stream, a)
         ELSE IF stream.codec_type = "subtitle" THEN EarlierSubtitleArgs(stream, s)
         ELSE <<>>

\* Whether the iteration reaches the increment of the counter of type t:
\* a continue of the earlier revision skips it.
Counts(rev, stream, t, v, a, s) ==
    /\ stream.codec_type = t
    /\ (rev = "current" \/ StreamArgs(rev, stream, v, a, s) # <<>>)

\* The stream descriptors of the model: codec types and names that take
\* every branch of both revisions, TrueHD with and without more than six
\* channels, and indexes that start at 0 or at 9.
Codecs ==
    {<<"video", "mjpeg">>, <<"video", "h264">>,
     <<"audio", "aac">>, <<"audio", "mp3">>, <<"audio", "eac3">>,
     <<"audio", "dts">>, <<"audio", "truehd">>, <<"audio", "vorbis">>,
     <<"subtitle", "srt">>, <<"subtitle", "ass">>,
     <<"data", "bin_data">>}

\* stream["channels"] as a json.Number; 0 stands for a descriptor without it.
ChannelsOf(c) == IF c[2] = "truehd" THEN {0, 2, 8} ELSE {0}

Shapes == {<<c[1], c[2], ch>> : c \in Codecs, ch \in {0, 2, 8}}

IndexBases == {0, 9}

Descriptor(shape, idx) ==
    [index |-> idx, codec_type |-> shape[1], codec_name |-> shape[2],
     channels |-> shape[3]]

ValidShapes == {sh \in Shapes : sh[3] \in ChannelsOf(sh)}

\* The lists of at most max descriptors, indexed in order from a base.
StreamLists(max) ==
    UNION {{[p \in 1..n |-> Descriptor(shapes[p], base + p - 1)] :
                shapes \in [1..n -> ValidShapes], base \in IndexBases}
           : n \in 0..max}

Revisions == {"current", "earlier"}

PlanIdle ==
    /\ revision = "none"
    /\ streams = <<>>
    /\ planPos = 0
    /\ planArgs = <<>>
    /\ emitted = <<>>
    /\ outputVideoIndex = 0
    /\ outputAudioIndex = 0
    /\ outputSubtitleIndex = 0
    /\ planDone = FALSE

PlanInit ==
    /\ revision \in Revisions
    /\ streams \in StreamLists(MaxStreams)
    /\ planPos = 0
    /\ planArgs = <<>>
    /\ emitted = <<>>
    /\ outputVideoIndex = 0
    /\ outputAudioIndex = 0
    /\ outputSubtitleIndex = 0
    /\ planDone = FALSE

\* One iteration of for _, stream := range streams.  emitted keeps, for
\* each stream gone through, what was appended for it.
PlanStream ==
    /\ ~planDone
    /\ planPos < Len(streams)
    /\ LET stream == streams[planPos + 1]
           v == outputVideoIndex
           a == outputAudioIndex
           s == outputSubtitleIndex
           new == StreamArgs(revision, stream, v, a, s)
       IN /\ planArgs' = planArgs \o new
          /\ emitted' = Append(emitted, new)
          /\ outputVideoIndex' =
                IF Counts(revision, stream, "video", v, a, s) THEN v + 1 ELSE v
          /\ outputAudioIndex' =
                IF Counts(revision, stream, "audio", v, a, s) THEN a + 1 ELSE a
          /\ outputSubtitleIndex' =
                IF Counts(revision, stream, "subtitle", v, a, s) THEN s + 1 ELSE s
    /\ planPos' = planPos + 1
    /\ UNCHANGED <<revision, streams, planDone>>

\* The loop is over and generateStreamArgs returns args.
PlanReturn ==
    /\ ~planDone
    /\ planPos = Len(streams)
    /\ planDone' = TRUE
    /\ UNCHANGED <<revision, streams, planPos, planArgs, emitted,
                   outputVideoIndex, outputAudioIndex, outputSubtitleIndex>>

\* ---------------------------------------------------------- specifications

TokIdle ==
    /\ command = <<>>
    /\ i = 0
    /\ state = "start"
    /\ current = <<>>
    /\ quote = DQ
    /\ escapeNext = TRUE
    /\ args = <<>>
    /\ tokDone = TRUE
    /\ tokResult = [argv |-> <<>>, err |-> FALSE]

NextTok == (ScanChar \/ ScanEnd) /\ UNCHANGED <<procVars, rangeVars, nptVars, planVars>>

InitTok == TokInit /\ ProcIdle /\ RangeIdle /\ NptIdle /\ PlanIdle

SpecTok == InitTok /\ [][NextTok]_vars

Init == ProcIdle /\ TokIdle /\ RangeIdle /\ NptIdle /\ PlanIdle

Next ==
    \/ Exec
    \/ Transcode
    \/ VP8Transcode
    \/ ChromecastTranscode
    \/ WebTranscode
    \/ ContextCancel
    \/ WatchCancel
    \/ ProcWrite
    \/ ProcExit
    \/ ReapWait
    \/ ReapJoin
    \/ Read

Spec == Init /\ [][Next]_vars

InitRange == RangeInit /\ TokIdle /\ ProcIdle /\ NptIdle /\ PlanIdle

NextRange == RangeRequest /\ UNCHANGED <<tokVars, procVars, nptVars, planVars>>

SpecRange == InitRange /\ [][NextRange]_vars

InitNPT == NptInit /\ TokIdle /\ ProcIdle /\ RangeIdle /\ PlanIdle

NextNPT == (ParseNPT \/ FormatNPT) /\ UNCHANGED <<tokVars, procVars, rangeVars, planVars>>

SpecNPT == InitNPT /\ [][NextNPT]_vars

InitPlan == PlanInit /\ TokIdle /\ ProcIdle /\ RangeIdle /\ NptIdle

NextPlan ==
    (PlanStream \/ PlanReturn) /\ UNCHANGED <<tokVars, procVars, rangeVars, nptVars>>

SpecPlan == InitPlan /\ [][NextPlan]_vars

\* ------------------------------------------------- tokenizer: the claims

\* The tokenizer the specification describes, read off its rules and not off
\* the code: fields separated by runs of space/tab, each a run of ordinary
\* characters or text in matching quotes.  ok is FALSE when the input is
\* not of that form.
RECURSIVE RefScan(_, _, _, _, _)
RefScan(cmd, k, mode, cur, out) ==
    IF k > Len(cmd) THEN
        IF mode = "word" THEN [ok |-> TRUE, fields |-> Append(out, cur)]
        ELSE IF mode = "closed" THEN [ok |-> TRUE, fields |-> out]
        ELSE [ok |-> FALSE, fields |-> <<>>]
    ELSE LET c == cmd[k] IN
        IF mode \in {"begin", "sep"} THEN
            IF c \in Ordinary THEN RefScan(cmd, k + 1, "word", <<c>>, out)
            ELSE IF c \in Quotes THEN RefScan(cmd, k + 1, c, <<>>, out)
            ELSE IF c \in Whitespace /\ mode = "sep"
            THEN RefScan(cmd, k + 1, "sep", <<>>, out)
            ELSE [ok |-> FALSE, fields |-> <<>>]
        ELSE IF mode = "word" THEN
            IF c \in Ordinary THEN RefScan(cmd, k + 1, "word", Append(cur, c), out)
            ELSE IF c \in Whitespace
            THEN RefScan(cmd, k + 1, "sep", <<>>, Append(out, cur))
            ELSE [ok |-> FALSE, fields |-> <<>>]
        ELSE IF mode \in Quotes THEN
            IF c = mode THEN RefScan(cmd, k + 1, "closed", <<>>, Append(out, cur))
            ELSE IF c \in Ordinary \cup Whitespace
            THEN RefScan(cmd, k + 1, mode, Append(cur, c), out)
            ELSE [ok |-> FALSE, fields |-> <<>>]
        ELSE \* mode = "closed": a quoted field has just ended
            IF c \in Whitespace THEN RefScan(cmd, k + 1, "sep", <<>>, out)
            ELSE [ok |-> FALSE, fields |-> <<>>]

RefFields(cmd) == RefScan(cmd, 1, "begin", <<>>, <<>>)

\* Where a scan by the specification's rules stands after the whole input:
\* "out" (outside quotes), "esc" (after a backslash), or the quote character
\* of the quoted field still open.
RECURSIVE RefQuoteMode(_, _, _)
RefQuoteMode(cmd, k, mode) ==
    IF k > Len(cmd) THEN mode
    ELSE LET c == cmd[k] IN
        IF mode \in Quotes
        THEN RefQuoteMode(cmd, k + 1, IF c = mode THEN "out" ELSE mode)
        ELSE IF mode = "esc" THEN RefQuoteMode(cmd, k + 1, "out")
        ELSE IF c = BS THEN RefQuoteMode(cmd, k + 1, "esc")
        ELSE IF c \in Quotes THEN RefQuoteMode(cmd, k + 1, c)
        ELSE RefQuoteMode(cmd, k + 1, "out")

\* A quote opens a quoted field that the input never closes.
UnclosedQuote(cmd) == RefQuoteMode(cmd, 1, "out") \in Quotes

\* The loop body as C6 reads it: a character taken literally is field
\* content, so it opens a field when none is open.
RefEscStep(st, c) ==
    IF st.state # "quotes" /\ st.escapeNext
    THEN [st EXCEPT !.current = Append(@, c),
                    !.escapeNext = FALSE,
                    !.state = "arg"]
    ELSE ParseStep(st, c)

RECURSIVE RefEscLoop(_, _, _)
RefEscLoop(st, cmd, k) ==
    IF k > Len(cmd) THEN st ELSE RefEscLoop(RefEscStep(st, cmd[k]), cmd, k + 1)

RefEscParse(cmd) == ParseFinish(RefEscLoop(TokStart, cmd, 1))

\* C4: every input with a quote that opens a quoted field and is never
\* closed, the very first position included, is rejected with an error and
\* an empty argv.
C4_UnclosedQuoteFails ==
    (tokDone /\ UnclosedQuote(command))
        => (tokResult.err /\ tokResult.argv = <<>>)

\* C5: an input made of whitespace-separated fields, each a run of ordinary
\* characters or quoted text, is split into exactly those fields, in order,
\* quotes stripped, whatever the length of the first field.
C5_FieldsSplit ==
    (tokDone /\ RefFields(command).ok)
        => (~tokResult.err /\ tokResult.argv = RefFields(command).fields)

\* C6: a character taken literally (after a backslash, or as the first
\* character of the input) is added without the backslash, begins a field
\* when none is open, and that field ends at the next unescaped whitespace.
C6_EscapedCharIsFieldContent ==
    tokDone => tokResult = RefEscParse(command)

\* ------------------------------------------------ orchestrator: the claims

\* C1: once the cancellation's interrupt has reached the running encoder,
\* the reaper never writes the "command ... failed" report, however the
\* encoder then exits.
C1_CancelNeverReportedFailed ==
    intrDelivered => report # "failed"

C3_EarlyErrorsLeaveNothingRunning ==
    /\ (call # "none" /\ (env.parseErr \/ ~env.probeOk \/ ~env.pipeOk \/ ~env.startOk))
            => /\ retErr \notin {"pending", "nil"}
               /\ proc = "none"
               /\ reaper = "none"
               /\ watcher = "none"
    /\ (reaper # "none") <=> (proc # "none")
    /\ (proc # "none") <=> (retErr = "nil")

\* Exec's parse succeeded, the pipe was attached, and cmd.Start failed.
C3_Witness ==
    /\ call = "Exec"
    /\ ~env.parseErr
    /\ env.pipeOk
    /\ ~env.startOk
    /\ retErr = "LaunchError"
    /\ reaper = "none"

\* C13: whatever the command string, Exec either returns the error of
\* parseCommandLine or hands transcodePipe an argument vector with at least
\* one element, so that args[0] is defined and nothing panics.
C13_ExecArgvNeverEmpty ==
    call = "Exec" =>
        \/ env.parseErr /\ retErr = "SyntaxError"
        \/ ~env.parseErr /\ Len(argv) >= 1 /\ retErr # "panic"

\* --------------------------------------------- range converter: the claims

Accepted(r) == ~r.err

WholeResourceHeaders ==
    {Prefix \o <<"0", "-">>, Prefix \o <<"0", "-">> \o FormatInt(totalSize - 1)}

\* C8: for a resource of positive size, "bytes=0-" and "bytes=0-<last>"
\* return {0, duration, 0, totalSize-1} without error; the conversion maps
\* offset 0 to time 0 and offset totalSize to the duration, and every
\* accepted request for bytes 0..totalSize-1 returns times 0 and duration.
C8_BoundaryExact ==
    totalSize > 0 =>
        /\ (rangeHeader # <<>> /\ rangeHeader \in WholeResourceHeaders)
              => nptRange = [err |-> FALSE,
                             rng |-> [Start |-> WZero, End |-> duration,
                                      StartByte |-> 0,
                                      EndByte |-> totalSize - 1]]
        /\ (rangeHeader # <<>>)
              => /\ calculateNPTPosition(0, totalSize, duration) = WZero
                 /\ calculateNPTPosition(totalSize, totalSize, duration) = duration
        /\ (rangeHeader # <<>> /\ Accepted(nptRange) /\ nptRange.rng.StartByte = 0
                /\ nptRange.rng.EndByte = totalSize - 1)
              => (nptRange.rng.Start = WZero /\ nptRange.rng.End = duration)

\* C9: whatever the header and the size, with a duration >= 0 a range
\* returned without error has 0 <= StartByte <= EndByte < totalSize and
\* 0 <= Start <= End <= duration.
C9_AcceptedRangeInBounds ==
    (rangeHeader # <<>> /\ WLeq(WZero, duration) /\ Accepted(nptRange)) =>
        /\ 0 <= nptRange.rng.StartByte
        /\ nptRange.rng.StartByte <= nptRange.rng.EndByte
        /\ nptRange.rng.EndByte < totalSize
        /\ WLeq(WZero, nptRange.rng.Start)
        /\ WLeq(nptRange.rng.Start, nptRange.rng.End)
        /\ WLeq(nptRange.rng.End, duration)

\* ----------------------------------------------------- NPT text: the claims

AllDigits(s) == \A k \in 1..Len(s) : IsDigit(s[k])

\* s is H:MM:SS.mmm: an hour field of one or more digits, two-digit
\* minutes and seconds below 60, three fraction digits.
IsCanonical(s) ==
    /\ Len(s) >= 11
    /\ LET n == Len(s)
           hh == SubSeq(s, 1, n - 10)
           mm == SubSeq(s, n - 8, n - 7)
           ss == SubSeq(s, n - 5, n - 4)
           ff == SubSeq(s, n - 2, n)
       IN /\ s[n - 9] = ":" /\ s[n - 6] = ":" /\ s[n - 3] = "."
          /\ AllDigits(hh) /\ AllDigits(mm) /\ AllDigits(ss) /\ AllDigits(ff)
          /\ DigitsVal(mm, 0) < 60
          /\ DigitsVal(ss, 0) < 60

HourField(s) == SubSeq(s, 1, Len(s) - 10)

\* The hour field is written as %02d writes it: two digits, or more with
\* no leading zero.
TwoDigitHours(s) ==
    Len(HourField(s)) >= 2 /\ (Len(HourField(s)) = 2 \/ HourField(s)[1] # "0")

TypeLetter(t) ==
    IF t = "video" THEN "v" ELSE IF t = "audio" THEN "a" ELSE "s"

SlotTypes == {"video", "audio", "subtitle"}

\* A piece sequence is an option scoped to a slot of some type.
IsScoped(arg) == Len(arg) >= 3 /\ arg[2] \in {"v", "a", "s"}

SlotText(arg) == SubSeq(arg, 3, Len(arg))

MapCount(g) == Cardinality({k \in 1..Len(g) : g[k] = <<"-map">>})

\* Streams of type t among the first p - 1 for which something was emitted.
IncludedBefore(p, t) ==
    Cardinality({q \in 1..(p - 1) :
                    streams[q].codec_type = t /\ emitted[q] # <<>>})

\* The slot texts that options of type t carry anywhere in args.
SlotsUsed(t) ==
    {SlotText(planArgs[k]) : k \in {j \in 1..Len(planArgs) :
        IsScoped(planArgs[j]) /\ planArgs[j][2] = TypeLetter(t)}}

\* C11: for each stream gone through, either nothing was emitted for it or
\* one "-map" followed by "0:<absolute index>"; every option emitted for the
\* n-th included stream of a type that is scoped to a slot is scoped to
\* slot n of that type; args holds one "-map" per included stream; and the
\* slots used per type are exactly 0..k-1, k the included streams of it.
C11_OneMapPerStreamSlotsInOrder ==
    /\ \A p \in 1..planPos :
        LET g == emitted[p]
            st == streams[p]
        IN g # <<>> =>
            /\ MapCount(g) = 1
            /\ g[1] = <<"-map">>
            /\ g[2] = <<"0", ":">> \o FormatInt(st.index)
            /\ st.codec_type \in SlotTypes =>
                \A k \in 1..Len(g) : IsScoped(g[k]) =>
                    /\ g[k][2] = TypeLetter(st.codec_type)
                    /\ SlotText(g[k]) = FormatInt(IncludedBefore(p, st.codec_type))
    /\ MapCount(planArgs) = Cardinality({p \in 1..planPos : emitted[p] # <<>>})
    /\ \A t \in SlotTypes :
        SlotsUsed(t) = {FormatInt(n) : n \in 0..(IncludedBefore(planPos + 1, t) - 1)}

\* C11 for the current revision and lists without TrueHD audio: used to
\* tell where the claim fails.
C11_WithoutTrueHD ==
    (revision = "current" /\ \A p \in 1..Len(streams) : streams[p].codec_name # "truehd")
        => C11_OneMapPerStreamSlotsInOrder

\* The word that follows the option <<name, letter, slot...>> in g, or
\* "none" when g has no such option.
ValueOf(g, name, letter) ==
    IF \E k \in 1..(Len(g) - 1) : IsScoped(g[k]) /\ g[k][1] = name /\ g[k][2] = letter
    THEN g[(CHOOSE k \in 1..(Len(g) - 1) :
                IsScoped(g[k]) /\ g[k][1] = name /\ g[k][2] = letter) + 1][1]
    ELSE "none"

\* The codec names of the decision table.
TableImageCodecs == {"mjpeg", "png", "bmp", "webp", "tiff", "j2k", "jpeg2000"}
TableFirstTier == {"aac", "dca", "ac3", "mp2", "mp3", "opus", "flac", "pcm_s16le"}
TableSecondTier == {"eac3", "dts"}

\* Filter values that resample with async compensation.
AsyncResampleFilters ==
    {"aresample=async=10000",
     "aresample=ocl=stereo:async=10000,channelmap=channel_layout=5.1",
     "aresample=async=1000000:first_pts=0"}

HasAsyncFilter(g) == ValueOf(g, "-filter", "a") \in AsyncResampleFilters

ReEncoded(g, letter) == ValueOf(g, "-c", letter) \notin {"none", "copy"}

\* The decision table for the stream st and what was emitted for it.
FollowsTable(st, g) ==
    /\ (st.codec_type = "video") =>
            ValueOf(g, "-c", "v") =
                IF st.codec_name \in TableImageCodecs THEN "copy" ELSE "mpeg2video"
    /\ (st.codec_type = "audio" /\ st.codec_name \in TableFirstTier) =>
            ValueOf(g, "-c", "a") = "ac3" /\ ValueOf(g, "-b", "a") = "224k"
    /\ (st.codec_type = "audio" /\ st.codec_name \in TableSecondTier) =>
            ValueOf(g, "-c", "a") = "ac3" /\ ValueOf(g, "-b", "a") = "448k"
    /\ (st.codec_type = "audio" /\ st.codec_name = "truehd") =>
            ValueOf(g, "-c", "a") = "ac3" /\ ValueOf(g, "-b", "a") = "640k"
    /\ (st.codec_type = "audio") => (HasAsyncFilter(g) <=> ReEncoded(g, "a"))

\* C12: every stream gone through got what the decision table says: copy
\* for image-style video and mpeg2video for other video, ac3 at 224k, 448k
\* and 640k for first-tier, second-tier and TrueHD audio, and an async
\* resample filter for an audio stream exactly when it is re-encoded.
C12_FollowsDecisionTable ==
    \A p \in 1..planPos : FollowsTable(streams[p], emitted[p])

\* C12 for the generateStreamArgs of transcode/transcode.go alone: used to
\* tell where the claim fails.
C12_CurrentRevision ==
    revision = "current" => C12_FollowsDecisionTable

====
